---- MODULE Spec2Model ----
(***************************************************************************)
(* Model of the MK1_AWE electrolyzer test rig software:                    *)
(*   - gui/psu_rtu_client.py   PSUClient (Modbus RTU set-point writes)     *)
(*   - gui/main_window.py      MainWindow status handling and closeEvent   *)
(*   - hdw/*_http.py           the polling bridges and their ring buffers  *)
(* Each subsystem has its own specification (SpecPSU, SpecGUI, SpecBridge) *)
(* over the shared variable tuple; the variables of the other subsystems   *)
(* stay at their initial values.                                           *)
(***************************************************************************)
EXTENDS Integers, Sequences, FiniteSets, TLC

VARIABLES
    \* ---- PSU device seen through PSUClient (psu_rtu_client.py)
    psuRegs,        \* set-point registers 0x0101, 0x0102, 0x0103 of the PSU
    psuCall,        \* the last PSUClient call: arguments, writes, result
    \* ---- MainWindow (main_window.py)
    initialized_devices,    \* self.initialized_devices
    previous_status,        \* self.previous_status (a dict)
    is_shutting_down,       \* self.is_shutting_down
    timerActive,            \* self.status_timer is running
    workerRunning,          \* a StatusWorker thread has not delivered yet
    guiLast,                \* what the last GUI handler did
    guiHist,                \* history: updates handled, RLM rises, init calls
    \* ---- one polling bridge process (hdw/*_http.py)
    bridge,             \* which bridge script this process runs
    device_online,      \* device_online (BGA02: latest_data["connected"])
    sample_buffer,      \* sample_buffer (BGA02: latest_data, at most one)
    data_lock,          \* holder of data_lock: "free", "poll" or "http"
    pollPc,             \* where the poll thread is
    pollBatch,          \* samples read and not yet appended
    httpPc,             \* where the /metrics handler is
    httpLocal,          \* the handler's locals (samples)
    resp,               \* the last /metrics response
    bridgeHist,         \* history: samples acquired, requests, lines sent
    command_queue,      \* command_queue
    pollIter,           \* the current poll iteration: commands sent, reads,
                        \* and how the last device call ended
    cmdPc,              \* where the POST /command handler is
    cmdLocal,           \* the handler's request body
    cmdResp,            \* the last POST /command response
    cmdHist,            \* history: commands accepted, commands sent
    pending_samples,    \* pending_samples of the poll thread
    influx_write_api,   \* influx_write_api: "none" (writes disabled) or "api"
    writeHist,          \* history: the batches passed to write_to_influxdb
    \* ---- the readings of the TC-08 bridge (hdw/pico_tc08_http.py)
    tc_buffer,          \* sample_buffer, with the channel readings
    tc_pending,         \* pending_samples, with the channel readings
    tc_write_api,       \* influx_write_api: "none" or "api"
    points_written,     \* points_written
    tcPc,               \* where read_thermocouples is: "read" or "flush"
    tcResp,             \* the last /metrics response
    tcHist,             \* history: temperatures read, points written
    \* ---- one PSUPanel (gui/widgets/psu_panel.py)
    mode,               \* self.mode: "gen3", "mk1" or "gen2"
    psu_available,      \* self.psu_available
    contactor_closed,   \* self.contactor_closed
    is_ramping,         \* self.is_ramping
    is_profiling,       \* self.is_profiling
    buttons,            \* isEnabled() of the ENTER, RAMP, PROFILE and STOP buttons
    operation,          \* ramp_current_step, ramp_max_steps, profile_index,
                        \* len(profile_data)
    profile_timer,      \* what self.profile_timer will call: "none", "ramp"
                        \* or "profile"
    panelPc,            \* "idle", or the error dialog a step handler shows
    \* ---- one export run (gui/main_window.py, data/process_test.py)
    pipeline,           \* the process_test.py process and its subprocesses
    status_bar          \* the message MainWindow._run_export showed last

psuVars == <<psuRegs, psuCall>>

cmdVars == <<command_queue, cmdPc, cmdLocal, cmdResp, cmdHist>>

influxVars == <<pending_samples, influx_write_api, writeHist>>

bridgeVars == <<bridge, device_online, sample_buffer, data_lock, pollPc,
                pollBatch, httpPc, httpLocal, resp, bridgeHist, pollIter,
                cmdVars, influxVars>>

tcVars == <<tc_buffer, tc_pending, tc_write_api, points_written, tcPc,
            tcResp, tcHist>>

panelVars == <<mode, psu_available, contactor_closed, is_ramping, is_profiling,
               buttons, operation, profile_timer, panelPc>>

pipeVars == <<pipeline, status_bar>>

auxVars == <<tcVars, panelVars, pipeVars>>

guiVars == <<initialized_devices, previous_status, is_shutting_down,
             timerActive, workerRunning, guiLast, guiHist>>

vars == <<psuRegs, psuCall,
          initialized_devices, previous_status, is_shutting_down,
          timerActive, workerRunning, guiLast, guiHist,
          bridge, device_online, sample_buffer, data_lock, pollPc,
          pollBatch, httpPc, httpLocal, resp, bridgeHist,
          command_queue, pollIter, cmdPc, cmdLocal, cmdResp, cmdHist,
          pending_samples, influx_write_api, writeHist,
          tc_buffer, tc_pending, tc_write_api, points_written, tcPc, tcResp,
          tcHist,
          mode, psu_available, contactor_closed, is_ramping, is_profiling,
          buttons, operation, profile_timer, panelPc,
          pipeline, status_bar>>

----------------------------------------------------------------------------
(***************************************************************************)
(* PSUClient.  Voltages and currents are floats in the code; the model     *)
(* counts them in tenths (the register scale 0.1), so 100.0 V is 1000.     *)
(* A float is the record [t, trunc]: t its value in tenths and trunc       *)
(* whether int(x / 0.1) falls one below t in IEEE-754 double arithmetic    *)
(* (int(100.3 / 0.1) = 1002, int(1.2 / 0.1) = 11, int((43 * 0.1) / 0.1)    *)
(* = 42).                                                                  *)
(***************************************************************************)

\* Safety limits, in tenths of a volt / ampere.
VOLTAGE_MIN == 1000
VOLTAGE_MAX == 9000
CURRENT_MIN == 10
CURRENT_MAX == 1000

\* Register addresses.
REG_VOLTAGE == 257      \* 0x0101
REG_CURRENT == 258      \* 0x0102
REG_ENABLE  == 259      \* 0x0103

\* Requests the callers may make (tenths), below, at and above every limit.
VoltageInputs == {0, 999, 1000, 1003, 9001}
CurrentInputs == {0, 9, 10, 12, 1001}
\* Raw values the measured-output registers 0x0001 (V) and 0x0002 (A) may show.
MeasuredRaw == {0, 9, 43, 1002}
\* The device: a measured output is 0 while the output is off and never above
\* its set point (setReg is REG_VOLTAGE or REG_CURRENT).
Measurable(setReg) ==
    {m \in MeasuredRaw : /\ psuRegs[REG_ENABLE] = 0 => m = 0
                         /\ m <= psuRegs[setReg]}

\* The decimal literals d/10 of the input sets for which int((d/10) / 0.1) = d - 1.
LossyLiteral == {1003, 12, 1001}
\* The raw register values r for which int((r * 0.1) / 0.1) = r - 1.
LossyScaled == {43}

\* The float written d/10 by the caller.
Lit(d) == [t |-> d, trunc |-> d \in LossyLiteral]
\* The float raw * 0.1 computed by get_voltage / get_current.
Scaled(r) == [t |-> r, trunc |-> r \in LossyScaled]

\* int(x / 0.1)
ToRegister(x) == IF x.trunc THEN x.t - 1 ELSE x.t

\* min(x, limit) for a limit that is exactly representable (900.0, 100.0)
FMin(x, limit) == IF limit < x.t THEN Lit(limit) ELSE x

BelowLimitsBoth(v, c) == v.t < VOLTAGE_MIN /\ c.t < CURRENT_MIN
\* voltage < VOLTAGE_MIN or current < CURRENT_MIN
BelowLimits(v, c) == v.t < VOLTAGE_MIN \/ c.t < CURRENT_MIN

\* The three register writes set_voltage_current(v, c) issues, in order.
RegisterWrites(v, c) ==
    IF BelowLimits(v, c)
    THEN << <<REG_VOLTAGE, ToRegister(Lit(0))>>,
            <<REG_CURRENT, ToRegister(Lit(0))>>,
            <<REG_ENABLE, 0>> >>
    ELSE << <<REG_VOLTAGE, ToRegister(FMin(v, VOLTAGE_MAX))>>,
            <<REG_CURRENT, ToRegister(FMin(c, CURRENT_MAX))>>,
            <<REG_ENABLE, 1>> >>

\* The registers after the writes ws reached the device, in order.
RECURSIVE ApplyWrites(_, _)
ApplyWrites(regs, ws) ==
    IF ws = << >> THEN regs
    ELSE ApplyWrites([regs EXCEPT ![Head(ws)[1]] = Head(ws)[2]], Tail(ws))

SetResultAlways(k) == TRUE
\* set_voltage_current returns True iff none of its three writes raised;
\* k is the number of writes done before one raised (3: none raised).
SetResult(k) == k = 3

\* x or 0.0, for x the Optional[float] of get_voltage / get_current
\* (None when the read raised; a float 0.0 is falsy too).
OrZero(readOk, x) == IF readOk /\ x.t # 0 THEN x ELSE Lit(0)

\* The body of set_voltage_current under psu_lock, as called by `op`.
DoSetVoltageCurrent(op, v, c, k) ==
    LET ws == SubSeq(RegisterWrites(v, c), 1, k) IN
    /\ psuRegs' = ApplyWrites(psuRegs, ws)
    /\ psuCall' = [op |-> op, voltage |-> v, current |-> c,
                   writes |-> ws, ret |-> SetResult(k)]
    /\ UNCHANGED <<guiVars, bridgeVars, auxVars>>

NoCall == [op |-> "none", voltage |-> Lit(0), current |-> Lit(0),
           writes |-> << >>, ret |-> FALSE]

PSUInit ==
    /\ psuRegs = [r \in {REG_VOLTAGE, REG_CURRENT, REG_ENABLE} |-> 0]
    /\ psuCall = NoCall

\* PSUClient.set_voltage_current(voltage, current)
PSUSetVoltageCurrent ==
    \E v \in VoltageInputs, c \in CurrentInputs, k \in 0..3 :
        DoSetVoltageCurrent("set_voltage_current", Lit(v), Lit(c), k)

\* PSUClient.set_voltage(voltage): current = self.get_current() or 0.0
PSUSetVoltage ==
    \E v \in VoltageInputs, readOk \in BOOLEAN, k \in 0..3 :
        \E mi \in Measurable(REG_CURRENT) :
            DoSetVoltageCurrent("set_voltage", Lit(v),
                                OrZero(readOk, Scaled(mi)), k)

\* PSUClient.set_current(current): voltage = self.get_voltage() or 0.0
PSUSetCurrent ==
    \E c \in CurrentInputs, readOk \in BOOLEAN, k \in 0..3 :
        \E mv \in Measurable(REG_VOLTAGE) :
            DoSetVoltageCurrent("set_current",
                                OrZero(readOk, Scaled(mv)), Lit(c), k)

\* PSUClient.safe_shutdown(): set_voltage_current(0.0, 0.0)
PSUSafeShutdown ==
    \E k \in 0..3 : DoSetVoltageCurrent("safe_shutdown", Lit(0), Lit(0), k)

\* PSUClient.enable_output() / disable_output(): one write to 0x0103
DoOutput(op, val, ok) ==
    LET ws == IF ok THEN << <<REG_ENABLE, val>> >> ELSE << >> IN
    /\ psuRegs' = ApplyWrites(psuRegs, ws)
    /\ psuCall' = [op |-> op, voltage |-> Lit(0), current |-> Lit(0),
                   writes |-> ws, ret |-> ok]
    /\ UNCHANGED <<guiVars, bridgeVars, auxVars>>

PSUEnableOutput == \E ok \in BOOLEAN : DoOutput("enable_output", 1, ok)

PSUDisableOutput == \E ok \in BOOLEAN : DoOutput("disable_output", 0, ok)

----------------------------------------------------------------------------
(***************************************************************************)
(* MainWindow: hardware status handling and the close event.  All handlers *)
(* run on the Qt GUI thread, one at a time; a StatusWorker thread checks   *)
(* the hardware in the background and its result is delivered as a queued  *)
(* signal.                                                                 *)
(***************************************************************************)

\* Status updates the model lets the timer start.
MaxUpdates == 4

Devices == {"AIM", "RLM", "TCM", "BGA01", "BGA02", "BGA03", "PSU"}
BGAs == {"BGA01", "BGA02", "BGA03"}

\* The dicts StatusWorker.run emits: {} when the config cannot be loaded,
\* else all seven keys, with RLM a copy of AIM (the same cDAQ chassis).
StatusResults ==
    {[empty |-> TRUE, online |-> {}]} \cup
    {[empty |-> FALSE, online |-> s] :
        s \in {t \in SUBSET Devices : ("AIM" \in t) <=> ("RLM" \in t)}}

\* status_results.get(device, False)
Get(status, device) == device \in status.online

\* _check_for_disconnections: the devices named in the alert (none: no alert)
Disconnected(prev, cur) ==
    IF prev.empty THEN {}
    ELSE {d \in Devices : Get(prev, d) /\ ~Get(cur, d)}

\* if not self.is_shutting_down: self._check_for_disconnections(...)
AlertShown(shutting, prev, cur) == ~shutting /\ Disconnected(prev, cur) # {}

\* `if online and G not in initialized_devices`: the group's init call is made
NeedsInit(init, group, online) == online /\ group \notin init

TrackNoDiscard(init, group, online) ==
    IF online THEN init \cup {group} ELSE init
\* initialized_devices after the if / elif of one group
Track(init, group, online) ==
    IF online /\ group \notin init THEN init \cup {group}
    ELSE IF ~online /\ group \in init THEN init \ {group}
    ELSE init

\* bgas_online = bga1_online or bga2_online or bga3_online
BgasOnline(status) == \E b \in BGAs : Get(status, b)

\* The safe-state actions of closeEvent in program order.
CloseOrder == <<"PSU", "RLM", "BGA", "PURGE">>

RECURSIVE CloseLogAborting(_, _, _)
CloseLogAborting(order, init, raises) ==
    IF order = << >> THEN << >>
    ELSE IF Head(order) \notin init
         THEN CloseLogAborting(Tail(order), init, raises)
    ELSE IF Head(order) \in raises
         THEN << [group |-> Head(order), raised |-> TRUE] >>
    ELSE << [group |-> Head(order), raised |-> FALSE] >>
            \o CloseLogAborting(Tail(order), init, raises)
\* The actions closeEvent performs: one per group in initialized_devices, each
\* inside its own try / except (raises: the groups whose action raises).
RECURSIVE CloseLog(_, _, _)
CloseLog(order, init, raises) ==
    IF order = << >> THEN << >>
    ELSE IF Head(order) \notin init THEN CloseLog(Tail(order), init, raises)
    ELSE << [group |-> Head(order), raised |-> Head(order) \in raises] >>
            \o CloseLog(Tail(order), init, raises)

\* event.accept() is the last statement of closeEvent and is always reached
CloseAccepted(log) == TRUE

NoHandler == [handler |-> "none", relayOff |-> 0, purgeNormal |-> 0,
              bgaInit |-> {}, alert |-> FALSE, log |-> << >>,
              accepted |-> FALSE]

GUIInit ==
    /\ initialized_devices = {}
    /\ previous_status = [empty |-> TRUE, online |-> {}]
    /\ is_shutting_down = FALSE
    /\ timerActive = TRUE
    /\ workerRunning = TRUE      \* __init__ triggers the first status check
    /\ guiLast = NoHandler
    /\ guiHist = [updates |-> 0, started |-> 1, lastOnline |-> {},
                  rlmRises |-> 0, relayInits |-> 0, purgeInits |-> 0,
                  closed |-> FALSE]

\* status_timer timeout -> HardwareStatusWidget.update_status: starts a
\* worker unless one is still running.
TimerTick ==
    /\ timerActive
    /\ ~workerRunning
    /\ guiHist.started < MaxUpdates
    /\ workerRunning' = TRUE
    /\ guiHist' = [guiHist EXCEPT !.started = @ + 1]
    /\ UNCHANGED <<initialized_devices, previous_status, is_shutting_down,
                   timerActive, guiLast, psuVars, bridgeVars, auxVars>>

\* MainWindow._update_control_availability(status_results), called when the
\* worker's result is delivered.
StatusUpdate ==
    /\ workerRunning
    /\ \E status \in StatusResults :
        LET rlm == Get(status, "RLM")
            bga == BgasOnline(status)
            psu == Get(status, "PSU")
            relayCall == NeedsInit(initialized_devices, "RLM", rlm)
            purgeCall == NeedsInit(initialized_devices, "PURGE", rlm)
            bgaCall == NeedsInit(initialized_devices, "BGA", bga)
            rise == rlm /\ "RLM" \notin guiHist.lastOnline
        IN
        /\ initialized_devices' =
              Track(Track(Track(Track(initialized_devices, "RLM", rlm),
                                "PURGE", rlm), "BGA", bga), "PSU", psu)
        /\ previous_status' = status
        /\ guiLast' = [handler |-> "status",
                       relayOff |-> IF relayCall THEN 1 ELSE 0,
                       purgeNormal |-> IF purgeCall THEN 1 ELSE 0,
                       bgaInit |-> IF bgaCall THEN BGAs ELSE {},
                       alert |-> AlertShown(is_shutting_down,
                                            previous_status, status),
                       log |-> << >>, accepted |-> FALSE]
        /\ guiHist' = [guiHist EXCEPT
              !.updates = @ + 1,
              !.lastOnline = status.online,
              !.rlmRises = IF rise THEN @ + 1 ELSE @,
              !.relayInits = IF relayCall THEN @ + 1 ELSE @,
              !.purgeInits = IF purgeCall THEN @ + 1 ELSE @]
    /\ workerRunning' = FALSE
    /\ UNCHANGED <<is_shutting_down, timerActive, psuVars, bridgeVars, auxVars>>

\* MainWindow.closeEvent(event)
CloseEvent ==
    /\ ~guiHist.closed
    /\ \E raises \in SUBSET {"PSU", "RLM", "BGA", "PURGE"}, k \in 0..3 :
        LET log == CloseLog(CloseOrder, initialized_devices, raises)
            shutdownRuns == "PSU" \in initialized_devices /\ "PSU" \notin raises
            ws == SubSeq(RegisterWrites(Lit(0), Lit(0)), 1, k)
        IN
        /\ "PSU" \in raises => k = 0
        /\ ~shutdownRuns => k = 0
        /\ guiLast' = [handler |-> "close",
                       relayOff |-> IF "RLM" \in initialized_devices
                                    THEN 1 ELSE 0,
                       purgeNormal |-> IF "PURGE" \in initialized_devices
                                       THEN 1 ELSE 0,
                       bgaInit |-> IF "BGA" \in initialized_devices
                                      /\ "BGA" \notin raises
                                   THEN BGAs ELSE {},
                       alert |-> FALSE,
                       log |-> log, accepted |-> CloseAccepted(log)]
        /\ psuRegs' = IF shutdownRuns THEN ApplyWrites(psuRegs, ws)
                      ELSE psuRegs
        /\ psuCall' = IF shutdownRuns
                      THEN [op |-> "safe_shutdown", voltage |-> Lit(0),
                            current |-> Lit(0), writes |-> ws,
                            ret |-> SetResult(k)]
                      ELSE psuCall
    /\ is_shutting_down' = TRUE
    /\ timerActive' = FALSE
    /\ guiHist' = [guiHist EXCEPT !.closed = TRUE]
    /\ UNCHANGED <<initialized_devices, previous_status, workerRunning,
                   bridgeVars, auxVars>>

NextGUI ==
    \/ TimerTick
    \/ StatusUpdate
    \/ CloseEvent

----------------------------------------------------------------------------
(***************************************************************************)
(* The polling bridges.  One process runs one bridge script: a poll thread *)
(* (poll_bga, read_psu_data, read_analog_inputs, read_thermocouples) and   *)
(* the HTTP server's GET /metrics handler, which run concurrently.  A step *)
(* is one access to the shared state (device_online, sample_buffer) or one *)
(* critical section of data_lock.                                          *)
(***************************************************************************)

\* Samples the model lets the device deliver, and /metrics requests it lets
\* the clients make.
MaxAcquired == 5
MaxRequests == 2

\* bridge_config.get('sample_rate', 2), bridge_config.get('buffer_seconds', 2)
SAMPLE_RATE == 2
BUFFER_SECONDS == 2

Bridges == {"BGA01", "BGA02", "BGA03", "NI", "TC08", "PSU"}
BGABridges == {"BGA01", "BGA02", "BGA03"}
\* The bridges that keep sample_buffer = deque(maxlen=...)
BufferingBridges == {"BGA01", "BGA03", "NI", "TC08", "PSU"}
NoneOnlineOnConnect == {}
\* The bridges whose poll thread sets device_online right after connecting
OnlineOnConnect == {"BGA01", "BGA03", "NI", "TC08"}
\* The bridges whose handler reads device_online inside `with data_lock`
FlagReadUnderLock == {"BGA01", "BGA03"}

\* deque(maxlen=SAMPLE_RATE * BUFFER_SECONDS)
BufferMax == SAMPLE_RATE * BUFFER_SECONDS

\* samples_per_read = max(1, SAMPLE_RATE // 10) in the NI bridge; the other
\* bridges read one sample per poll
SamplesPerRead(b) ==
    IF b = "NI" /\ SAMPLE_RATE \div 10 > 1 THEN SAMPLE_RATE \div 10 ELSE 1

\* Whether a sample may come without any field to print: a BGA sample whose
\* purity, uncertainty, temperature and pressure are all None, a TC-08 sample
\* with no valid channel.  PSU and NI samples always print.
MayLackFields(b) == b \in BGABridges \cup {"TC08"}

RingAppendDropNewest(buf, s) ==
    IF Len(buf) >= BufferMax THEN buf ELSE Append(buf, s)
\* sample_buffer.append(sample) on a deque with maxlen = BufferMax
RingAppend(buf, s) ==
    IF BufferMax = 0 THEN << >>
    ELSE IF Len(buf) >= BufferMax THEN Append(Tail(buf), s)
    ELSE Append(buf, s)

\* The samples of a response that get a line (`if fields:`, `if data['valid']`)
HasLine(s) == s.fields
Ids(samples) == [n \in 1..Len(samples) |-> samples[n].id]
LineIds(samples) == Ids(SelectSeq(samples, HasLine))

\* The status of a response without samples
NoDataStatus(b) == IF b \in BGABridges THEN 204 ELSE 503

PollMayEnterAlways(lock) == TRUE
\* `with data_lock:` in the poll thread
PollMayEnter(lock) == lock = "free"

NoResponse == [status |-> 0, snapshot |-> << >>, lines |-> << >>,
               online |-> FALSE, buffered |-> 0]

\* The bridges that write to InfluxDB themselves
InfluxBridges == {"BGA01", "NI", "TC08", "PSU"}

\* setup_influxdb(): without a token (or when the client cannot be made)
\* influx_write_api stays None and direct writes are disabled.
InfluxSetups == {"none", "api"}

\* write_batch_size = SAMPLE_RATE; max(1, SAMPLE_RATE) in the TC-08 bridge
WriteBatchSize(b) ==
    IF b = "TC08" /\ SAMPLE_RATE < 1 THEN 1 ELSE SAMPLE_RATE

FlushDueLate(pending, b) == Len(pending) > WriteBatchSize(b)
\* if len(pending_samples) >= write_batch_size
FlushDue(pending, b) == Len(pending) >= WriteBatchSize(b)

\* write_to_influxdb(samples): False when writes are disabled, else the write
\* succeeds or raises inside the function, which returns True or False.
WriteResults(api) == IF api = "none" THEN {"disabled"} ELSE {"ok", "failed"}

\* The bridges with a POST /command endpoint
CommandBridges == {"BGA01", "BGA02", "BGA03", "PSU"}

\* Where a poll iteration starts: "Process any pending commands first"
IterStart(b) == IF b \in CommandBridges THEN "command" ELSE "read"

NoCommandResponse == [status |-> 0, success |-> FALSE, online |-> FALSE,
                      body |-> "none", queued |-> 0]

\* The state of a bridge process when its threads start, with the outcome of
\* setup_influxdb() among `setups`
BridgeStart(setups) ==
    /\ bridge \in Bridges
    /\ device_online = FALSE
    /\ sample_buffer = << >>
    /\ data_lock = "free"
    /\ pollPc = "connect"
    /\ pollBatch = << >>
    /\ httpPc = "idle"
    /\ httpLocal = << >>
    /\ resp = NoResponse
    /\ bridgeHist = [acquired |-> 0, requests |-> 0, sent |-> {},
                     dup |-> FALSE, clearedNoLine |-> {},
                     clearedNotSnap |-> {}, since |-> 0]
    /\ command_queue = << >>
    /\ pollIter = [sent |-> 0, reads |-> 0, call |-> "none"]
    /\ cmdPc = "idle"
    /\ cmdLocal = "none"
    /\ cmdResp = NoCommandResponse
    /\ cmdHist = [posts |-> 0, accepted |-> 0, sent |-> << >>]
    /\ pending_samples = << >>
    /\ influx_write_api \in setups
    /\ writeHist = << >>

\* A bridge started without an InfluxDB token
BridgeInit == BridgeStart({"none"})

\* history after an assignment to device_online: `since` is the number of
\* samples acquired before the flag last went from False to True
Marked(h, was, now) ==
    IF ~was /\ now THEN [h EXCEPT !.since = h.acquired] ELSE h

\* serial.Serial(...) / minimalmodbus.Instrument(...) / nidaqmx.Task() /
\* usb_tc08_open_unit(): the connection is made, or the call raises.
PollConnect ==
    /\ pollPc = "connect"
    /\ \E ok \in BOOLEAN :
          IF ok
          THEN /\ pollPc' = IterStart(bridge)
               /\ device_online' = IF bridge \in OnlineOnConnect THEN TRUE
                                   ELSE device_online
               /\ pollIter' = [sent |-> 0, reads |-> 0, call |-> "ok"]
               /\ bridgeHist' = Marked(bridgeHist, device_online,
                                       bridge \in OnlineOnConnect)
          ELSE /\ pollPc' = "except"
               /\ pollIter' = [sent |-> 0, reads |-> 0, call |-> "raised"]
               /\ UNCHANGED <<device_online, bridgeHist>>
    /\ UNCHANGED <<bridge, sample_buffer, data_lock, pollBatch, httpPc,
                   httpLocal, resp, influxVars, psuVars, guiVars, cmdVars, auxVars>>

\* The device call of one poll iteration raises.
PollReadRaises ==
    /\ pollPc = "read"
    /\ pollPc' = "except"
    /\ pollIter' = [pollIter EXCEPT !.reads = 1, !.call = "raised"]
    /\ UNCHANGED <<bridge, device_online, sample_buffer, data_lock, pollBatch,
                   httpPc, httpLocal, resp, bridgeHist, influxVars, psuVars, guiVars,
                   cmdVars, auxVars>>

\* A BGA answers none of the six queries: the bridge marks it offline
\* (BGA02 does so inside `with data_lock`).
PollReadNothing ==
    /\ pollPc = "read"
    /\ bridge \in BGABridges
    /\ bridge = "BGA02" => PollMayEnter(data_lock)
    /\ device_online' = FALSE
    /\ pollPc' = IterStart(bridge)
    /\ pollIter' = [sent |-> 0, reads |-> 0, call |-> "silent"]
    /\ UNCHANGED <<bridge, sample_buffer, data_lock, pollBatch, httpPc,
                   httpLocal, resp, bridgeHist, influxVars, psuVars, guiVars, cmdVars, auxVars>>

\* The samples with ids first..last, each with or without printable fields
NewSamples(first, last, flags) ==
    [n \in 1..(last - first + 1) |->
        [id |-> first + n - 1, fields |-> flags[n]]]

\* The device call returns data: the sample (NI: the batch of samples) is
\* built.  BGA01, BGA03 and PSU set device_online here.
PollReadData ==
    /\ pollPc = "read"
    /\ bridgeHist.acquired + SamplesPerRead(bridge) <= MaxAcquired
    /\ \E flags \in [1..SamplesPerRead(bridge) -> BOOLEAN] :
          /\ ~MayLackFields(bridge) => \A n \in DOMAIN flags : flags[n]
          /\ pollBatch' = NewSamples(bridgeHist.acquired + 1,
                                     bridgeHist.acquired + SamplesPerRead(bridge),
                                     flags)
    /\ bridgeHist' = [Marked(bridgeHist, device_online,
                              bridge \in {"BGA01", "BGA03", "PSU"})
                          EXCEPT !.acquired = @ + SamplesPerRead(bridge)]
    /\ device_online' = IF bridge \in {"BGA01", "BGA03", "PSU"} THEN TRUE
                        ELSE device_online
    /\ pollPc' = "append"
    /\ pollIter' = [pollIter EXCEPT !.reads = 1, !.call = "ok"]
    /\ UNCHANGED <<bridge, sample_buffer, data_lock, httpPc, httpLocal, resp,
                   influxVars, psuVars, guiVars, cmdVars, auxVars>>

\* with data_lock: sample_buffer.append(sample)
\* (BGA02: with data_lock: latest_data["connected"] = True; latest_data = ...)
PollAppend ==
    /\ pollPc = "append"
    /\ PollMayEnter(data_lock)
    /\ sample_buffer' = IF bridge = "BGA02" THEN << Head(pollBatch) >>
                        ELSE RingAppend(sample_buffer, Head(pollBatch))
    /\ device_online' = IF bridge = "BGA02" THEN TRUE ELSE device_online
    /\ pollBatch' = Tail(pollBatch)
    /\ pending_samples' = IF bridge \in InfluxBridges
                          THEN Append(pending_samples, Head(pollBatch))
                          ELSE pending_samples
    /\ pollPc' = IF Tail(pollBatch) # << >> THEN "append"
                 ELSE IF bridge \in InfluxBridges THEN "flush"
                 ELSE IterStart(bridge)
    /\ pollIter' = IF Tail(pollBatch) = << >> /\ bridge \notin InfluxBridges
                   THEN [pollIter EXCEPT !.sent = 0, !.reads = 0]
                   ELSE pollIter
    /\ bridgeHist' = IF bridge = "BGA02" /\ ~device_online
                     THEN [bridgeHist EXCEPT !.since = Head(pollBatch).id - 1]
                     ELSE bridgeHist
    /\ UNCHANGED <<bridge, data_lock, httpPc, httpLocal, resp,
                   influx_write_api, writeHist, psuVars, guiVars, cmdVars, auxVars>>

\* if len(pending_samples) >= write_batch_size:
\*     write_to_influxdb(pending_samples); pending_samples = []
\* and the sleep that ends the iteration.
PollFlush ==
    /\ pollPc = "flush"
    /\ IF FlushDue(pending_samples, bridge)
       THEN /\ \E result \in WriteResults(influx_write_api) :
                  writeHist' = Append(writeHist,
                      [samples |-> Ids(pending_samples), result |-> result])
            /\ pending_samples' = << >>
       ELSE UNCHANGED <<pending_samples, writeHist>>
    /\ pollPc' = IterStart(bridge)
    /\ pollIter' = [pollIter EXCEPT !.sent = 0, !.reads = 0]
    /\ UNCHANGED <<bridge, device_online, sample_buffer, data_lock, pollBatch,
                   httpPc, httpLocal, resp, bridgeHist, influx_write_api,
                   psuVars, guiVars, cmdVars, auxVars>>

\* except Exception: device_online = False; time.sleep(RECONNECT_DELAY)
\* (BGA02 sets the flag inside `with data_lock`)
PollExcept ==
    /\ pollPc = "except"
    /\ bridge = "BGA02" => PollMayEnter(data_lock)
    /\ device_online' = FALSE
    /\ pollPc' = "connect"
    /\ pollIter' = [pollIter EXCEPT !.call = "none"]
    /\ UNCHANGED <<bridge, sample_buffer, data_lock, pollBatch, httpPc,
                   httpLocal, resp, bridgeHist, influxVars, psuVars, guiVars,
                   cmdVars, auxVars>>

\* POST /command requests the model lets the clients make
MaxCommands == 3

QueueBack(q) == q[Len(q)]
\* command_queue.pop(0) / command_queue.get_nowait(): the oldest command
QueueFront(q) == Head(q)

\* The start of a poll iteration: "Process any pending commands first".
\* BGA bridges: with command_lock, if the queue is not empty, pop one command
\* and write it to the serial port (the write may raise: the command is gone
\* and the thread goes to its except clause).  PSU bridge: while the queue is
\* not empty, take one command and write its registers; an exception of a
\* write is caught and the loop goes on.
PollCommand ==
    /\ pollPc = "command"
    /\ IF command_queue = << >>
       THEN /\ pollPc' = "read"
            /\ UNCHANGED <<command_queue, pollIter, cmdHist>>
       ELSE /\ command_queue' = Tail(command_queue)
            /\ \E written \in BOOLEAN :
                  /\ IF written
                     THEN /\ cmdHist' = [cmdHist EXCEPT !.sent = Append(@,
                                   [id |-> QueueFront(command_queue).id,
                                    nth |-> pollIter.sent,
                                    reads |-> pollIter.reads])]
                          /\ pollIter' = [pollIter EXCEPT !.sent = @ + 1,
                                                          !.call = "ok"]
                     ELSE /\ pollIter' = [pollIter EXCEPT !.call = "raised"]
                          /\ UNCHANGED cmdHist
                  /\ pollPc' = IF bridge = "PSU" THEN "command"
                               ELSE IF written THEN "read" ELSE "except"
    /\ UNCHANGED <<bridge, device_online, sample_buffer, data_lock, pollBatch,
                   httpPc, httpLocal, resp, bridgeHist, cmdPc, cmdLocal,
                   cmdResp, influxVars, psuVars, guiVars, auxVars>>

\* history after a response with the samples `snap`, of which `cleared` were
\* removed from the buffer
Sent(h, snap, cleared) ==
    LET lineIds == {LineIds(snap)[n] : n \in 1..Len(LineIds(snap))}
        snapIds == {snap[n].id : n \in 1..Len(snap)}
        clearedIds == {cleared[n].id : n \in 1..Len(cleared)}
    IN [h EXCEPT !.sent = @ \cup lineIds,
                 !.dup = @ \/ (lineIds \cap h.sent # {}),
                 !.clearedNoLine = @ \cup {cleared[n] : n \in
                        {k \in 1..Len(cleared) : cleared[k].id \notin lineIds}},
                 !.clearedNotSnap = @ \cup (clearedIds \ snapIds)]

\* GET /metrics, up to the test of device_online.  BGA01 and BGA03 take
\* data_lock first; NI, TC-08 and PSU test the flag before taking it; BGA02
\* builds the whole response inside the lock.
MetricsStart ==
    /\ httpPc = "idle"
    /\ bridgeHist.requests < MaxRequests
    /\ bridge \in FlagReadUnderLock \cup {"BGA02"} => data_lock = "free"
    /\ bridgeHist' = [bridgeHist EXCEPT !.requests = @ + 1]
    /\ IF ~device_online
       THEN /\ resp' = [status |-> NoDataStatus(bridge), snapshot |-> << >>,
                        lines |-> << >>, online |-> FALSE,
                        buffered |-> Len(sample_buffer)]
            /\ UNCHANGED <<httpPc, data_lock>>
       ELSE IF bridge = "BGA02"
       THEN /\ resp' = [status |-> 200, snapshot |-> Ids(sample_buffer),
                        lines |-> LineIds(sample_buffer), online |-> TRUE,
                        buffered |-> Len(sample_buffer)]
            /\ UNCHANGED <<httpPc, data_lock>>
       ELSE /\ httpPc' = "checked"
            /\ data_lock' = IF bridge \in FlagReadUnderLock THEN "http"
                            ELSE data_lock
            /\ UNCHANGED resp
    /\ UNCHANGED <<bridge, device_online, sample_buffer, pollPc, pollBatch,
                   httpLocal, influxVars, psuVars, guiVars, pollIter, cmdVars, auxVars>>

\* ... the test of the buffer length and samples = list(sample_buffer),
\* inside data_lock.  All bridges but BGA03 then release the lock and answer.
MetricsSnapshot ==
    /\ httpPc = "checked"
    /\ bridge \notin FlagReadUnderLock => data_lock = "free"
    /\ IF Len(sample_buffer) = 0
       THEN /\ resp' = [status |-> NoDataStatus(bridge), snapshot |-> << >>,
                        lines |-> << >>, online |-> device_online,
                        buffered |-> 0]
            /\ httpPc' = "idle"
            /\ data_lock' = "free"
            /\ UNCHANGED <<httpLocal, bridgeHist>>
       ELSE IF bridge = "BGA03"
       THEN /\ httpLocal' = sample_buffer
            /\ httpPc' = "snapped"
            /\ resp' = [NoResponse EXCEPT !.online = device_online,
                                          !.buffered = Len(sample_buffer)]
            /\ UNCHANGED <<data_lock, bridgeHist>>
       ELSE /\ resp' = [status |-> 200, snapshot |-> Ids(sample_buffer),
                        lines |-> LineIds(sample_buffer),
                        online |-> device_online,
                        buffered |-> Len(sample_buffer)]
            /\ bridgeHist' = Sent(bridgeHist, sample_buffer, << >>)
            /\ httpPc' = "idle"
            /\ data_lock' = "free"
            /\ UNCHANGED httpLocal
    /\ UNCHANGED <<bridge, device_online, sample_buffer, pollPc, pollBatch,
                   influxVars, psuVars, guiVars, pollIter, cmdVars, auxVars>>

\* BGA03: sample_buffer.clear(), the end of the critical section, and the
\* response built from samples.
MetricsClear ==
    /\ httpPc = "snapped"
    /\ sample_buffer' = << >>
    /\ data_lock' = "free"
    /\ resp' = [resp EXCEPT !.status = 200, !.snapshot = Ids(httpLocal),
                            !.lines = LineIds(httpLocal)]
    /\ bridgeHist' = Sent(bridgeHist, httpLocal, sample_buffer)
    /\ httpLocal' = << >>
    /\ httpPc' = "idle"
    /\ UNCHANGED <<bridge, device_online, pollPc, pollBatch, influxVars, psuVars, guiVars,
                   pollIter, cmdVars, auxVars>>

\* The bodies of a POST /command: none (or not JSON), text that is not valid
\* JSON, an empty JSON value ({}, [], null, 0, false, ""), a command object.
Bodies == {"absent", "malformed", "empty", "command"}

\* request.get_json(): the parsed value, None, or an exception.  Without a
\* JSON body it returns None or raises 415 Unsupported Media Type, depending
\* on the installed Flask; malformed JSON raises 400 Bad Request.
GetJson(body) ==
    CASE body = "absent" -> {"None", "raise"}
      [] body = "malformed" -> {"raise"}
      [] body = "empty" -> {"falsy"}
      [] OTHER -> {"value"}

IsQueuedAlways(parsed) == parsed # "raise"
\* `if not cmd_data: return 400` ... command_queue.put(cmd_data)
IsQueued(parsed) == parsed = "value"

\* The status of the PSU bridge's answer: 500 from `except Exception`
CommandStatus(parsed) ==
    IF parsed = "raise" THEN 500 ELSE IF IsQueued(parsed) THEN 200 ELSE 400

\* PSU bridge, POST /command up to the test of device_online.
CommandStart ==
    /\ bridge = "PSU"
    /\ cmdPc = "idle"
    /\ cmdHist.posts < MaxCommands
    /\ cmdHist' = [cmdHist EXCEPT !.posts = @ + 1]
    /\ \E body \in Bodies :
          IF ~device_online
          THEN /\ cmdResp' = [status |-> 503, success |-> FALSE,
                              online |-> FALSE, body |-> body, queued |-> 0]
               /\ UNCHANGED <<cmdPc, cmdLocal>>
          ELSE /\ cmdPc' = "parse"
               /\ cmdLocal' = body
               /\ UNCHANGED cmdResp
    /\ UNCHANGED <<bridge, device_online, sample_buffer, data_lock, pollPc,
                   pollBatch, httpPc, httpLocal, resp, bridgeHist,
                   command_queue, pollIter, influxVars, psuVars, guiVars, auxVars>>

\* PSU bridge, POST /command: get_json, the test of the value, the put.
CommandPut ==
    /\ cmdPc = "parse"
    /\ \E parsed \in GetJson(cmdLocal) :
          /\ cmdResp' = [status |-> CommandStatus(parsed),
                         success |-> CommandStatus(parsed) = 200,
                         online |-> TRUE, body |-> cmdLocal,
                         queued |-> IF IsQueued(parsed) THEN 1 ELSE 0]
          /\ IF IsQueued(parsed)
             THEN /\ command_queue' = Append(command_queue,
                        [id |-> cmdHist.accepted + 1, body |-> cmdLocal])
                  /\ cmdHist' = [cmdHist EXCEPT !.accepted = @ + 1]
             ELSE UNCHANGED <<command_queue, cmdHist>>
    /\ cmdPc' = "idle"
    /\ cmdLocal' = "none"
    /\ UNCHANGED <<bridge, device_online, sample_buffer, data_lock, pollPc,
                   pollBatch, httpPc, httpLocal, resp, bridgeHist, pollIter,
                   influxVars, psuVars, guiVars, auxVars>>

\* BGA bridges, do_POST: the body is appended to command_queue inside
\* command_lock, whatever it is and whether the device is online or not.  The
\* HTTPServer handles one request at a time.
CommandPost ==
    /\ bridge \in BGABridges
    /\ httpPc = "idle"
    /\ cmdHist.posts < MaxCommands
    /\ command_queue' = Append(command_queue,
            [id |-> cmdHist.accepted + 1, body |-> "command"])
    /\ cmdResp' = [status |-> 200, success |-> TRUE, online |-> device_online,
                   body |-> "command", queued |-> 1]
    /\ cmdHist' = [cmdHist EXCEPT !.posts = @ + 1, !.accepted = @ + 1]
    /\ UNCHANGED <<bridge, device_online, sample_buffer, data_lock, pollPc,
                   pollBatch, httpPc, httpLocal, resp, bridgeHist, pollIter,
                   cmdPc, cmdLocal, influxVars, psuVars, guiVars, auxVars>>

NextBridge ==
    \/ PollConnect
    \/ PollReadRaises
    \/ PollReadNothing
    \/ PollReadData
    \/ PollAppend
    \/ PollExcept
    \/ PollCommand
    \/ PollFlush
    \/ MetricsStart
    \/ MetricsSnapshot
    \/ MetricsClear

\* The other subsystems at rest.
BridgeIdle ==
    /\ bridge = "BGA01"
    /\ device_online = FALSE
    /\ sample_buffer = << >>
    /\ data_lock = "free"
    /\ pollPc = "connect"
    /\ pollBatch = << >>
    /\ httpPc = "idle"
    /\ httpLocal = << >>
    /\ resp = NoResponse
    /\ bridgeHist = [acquired |-> 0, requests |-> 0, sent |-> {},
                     dup |-> FALSE, clearedNoLine |-> {},
                     clearedNotSnap |-> {}, since |-> 0]
    /\ command_queue = << >>
    /\ pollIter = [sent |-> 0, reads |-> 0, call |-> "none"]
    /\ cmdPc = "idle"
    /\ cmdLocal = "none"
    /\ cmdResp = NoCommandResponse
    /\ cmdHist = [posts |-> 0, accepted |-> 0, sent |-> << >>]
    /\ pending_samples = << >>
    /\ influx_write_api = "none"
    /\ writeHist = << >>

----------------------------------------------------------------------------
(***************************************************************************)
(* The readings of the TC-08 bridge (hdw/pico_tc08_http.py).  One sample   *)
(* holds one reading per configured channel; temperatures are floats in    *)
(* the code and whole degrees here.  The device is connected and           *)
(* streaming (device_online = True).                                       *)
(***************************************************************************)
\* samples read by the loop of read_thermocouples
MaxReads == 2

\* config['modules']['Pico_TC08_Channels']
TCChannels == {"TC1", "TC2"}

\* what usb_tc08_get_temp leaves in temp_buffer[0]
TCTemps == {-200, -199, 1499, 1500}

\* 'value': None and 'value': temp_c
None == << >>
Value(temp_c) == <<temp_c>>

InRangeClosed(temp_c) == -200 <= temp_c /\ temp_c <= 1500
\* if -200 < temp_c < 1500:  # Valid range for K-type
InRange(temp_c) == -200 < temp_c /\ temp_c < 1500

\* readings[ch_name] = {'value': ..., 'type': ..., 'valid': ...}
Reading(temp_c) ==
    IF InRange(temp_c) THEN [value |-> Value(temp_c), valid |-> TRUE]
    ELSE [value |-> None, valid |-> FALSE]

\* sample = {'timestamp_ns': time.time_ns(), 'readings': readings}; the
\* timestamp is the number of the read
Sample(stamp, temps) ==
    [timestamp_ns |-> stamp,
     readings |-> [ch \in TCChannels |-> Reading(temps[ch])]]

\* The points write_to_influxdb builds, and the lines metrics() builds, from
\* samples: one per channel of each sample `if data['valid']`.  Timestamps
\* differ between samples, so no two of them are equal.
ValidReadings(samples) ==
    {[channel |-> ch, temp_c |-> samples[n].readings[ch].value,
      time |-> samples[n].timestamp_ns] :
        <<n, ch>> \in {x \in (1..Len(samples)) \X TCChannels :
                          samples[x[1]].readings[x[2]].valid}}

TCStart(setups) ==
    /\ tc_buffer = << >>
    /\ tc_pending = << >>
    /\ tc_write_api \in setups
    /\ points_written = 0
    /\ tcPc = "read"
    /\ tcResp = [status |-> 0, lines |-> {}]
    /\ tcHist = [raw |-> << >>, written |-> {}]

TCIdle == TCStart({"none"})

\* One pass of the read loop up to sample_buffer.append(sample)
TCRead ==
    /\ tcPc = "read"
    /\ Len(tcHist.raw) < MaxReads
    /\ \E temps \in [TCChannels -> TCTemps] :
          LET sample == Sample(Len(tcHist.raw) + 1, temps)
          IN /\ tc_pending' = Append(tc_pending, sample)
             /\ tc_buffer' = RingAppend(tc_buffer, sample)
             /\ tcHist' = [tcHist EXCEPT !.raw = Append(@, temps)]
    /\ tcPc' = "flush"
    /\ UNCHANGED <<tc_write_api, points_written, tcResp, psuVars, guiVars,
                   bridgeVars, panelVars, pipeVars>>

\* if len(pending_samples) >= write_batch_size:
\*     write_to_influxdb(pending_samples); pending_samples = []
TCFlush ==
    /\ tcPc = "flush"
    /\ IF FlushDue(tc_pending, "TC08")
       THEN /\ tc_pending' = << >>
            /\ \E result \in WriteResults(tc_write_api) :
                  LET points == ValidReadings(tc_pending)
                  IN IF result = "ok" /\ points # {}
                     THEN /\ points_written' =
                                points_written + Cardinality(points)
                          /\ tcHist' = [tcHist EXCEPT
                                           !.written = @ \cup points]
                     ELSE UNCHANGED <<points_written, tcHist>>
       ELSE UNCHANGED <<tc_pending, points_written, tcHist>>
    /\ tcPc' = "read"
    /\ UNCHANGED <<tc_buffer, tc_write_api, tcResp, psuVars, guiVars,
                   bridgeVars, panelVars, pipeVars>>

\* metrics() of the TC-08 bridge
TCMetrics ==
    /\ tcResp' = IF Len(tc_buffer) = 0
                 THEN [status |-> 503, lines |-> {}]
                 ELSE [status |-> 200, lines |-> ValidReadings(tc_buffer)]
    /\ UNCHANGED <<tc_buffer, tc_pending, tc_write_api, points_written,
                   tcPc, tcHist, psuVars, guiVars, bridgeVars, panelVars, pipeVars>>

NextTC08 ==
    \/ TCRead
    \/ TCFlush
    \/ TCMetrics

----------------------------------------------------------------------------
(***************************************************************************)
(* PSUPanel (gui/widgets/psu_panel.py).  Every action is one handler of    *)
(* the GUI thread, run up to its return or up to the modal error dialog    *)
(* of a step handler, whose msg.exec() lets other handlers run.  The       *)
(* functions of psu_client (set_current, stop, get_ramp_config,            *)
(* load_profile) return or raise.                                          *)
(***************************************************************************)
\* the largest num_steps of get_ramp_config() and len(load_profile())
MaxSteps == 2

Modes == {"gen3", "mk1", "gen2"}

ButtonStatesWhileRunning(m, available, closed, ramping, profiling) ==
    LET interlock_ok == IF m = "gen3" THEN available
                        ELSE closed /\ available
    IN [enter |-> interlock_ok, ramp |-> interlock_ok,
        profile |-> interlock_ok, stop |-> available]
\* PSUPanel._update_button_states(): what the four setEnabled calls leave
ButtonStates(m, available, closed, ramping, profiling) ==
    LET interlock_ok == IF m = "gen3" THEN available
                        ELSE closed /\ available
    IN [enter |-> interlock_ok /\ ~ramping /\ ~profiling,
        ramp |-> interlock_ok /\ ~ramping /\ ~profiling,
        profile |-> interlock_ok /\ ~ramping /\ ~profiling,
        stop |-> available]

\* PSUPanel.__init__()
PanelInit ==
    /\ mode \in Modes
    /\ psu_available = FALSE
    /\ contactor_closed = FALSE
    /\ is_ramping = FALSE
    /\ is_profiling = FALSE
    /\ buttons = ButtonStates(mode, FALSE, FALSE, FALSE, FALSE)
    /\ operation = [ramp_current_step |-> 0, ramp_max_steps |-> 0,
                    profile_index |-> 0, profile_points |-> 0]
    /\ profile_timer = "none"
    /\ panelPc = "idle"

PanelRest == UNCHANGED <<psuVars, guiVars, bridgeVars, tcVars, pipeVars>>

\* PSUPanel.set_contactor_state(closed)
SetContactorState ==
    /\ \E closed \in BOOLEAN :
          /\ contactor_closed' = closed
          /\ buttons' = ButtonStates(mode, psu_available, closed, is_ramping,
                                     is_profiling)
    /\ UNCHANGED <<mode, psu_available, is_ramping, is_profiling, operation,
                   profile_timer, panelPc>>
    /\ PanelRest

\* PSUPanel.set_hardware_available(psu_count), called by
\* MainWindow._update_control_availability with 1 or 0
SetHardwareAvailable ==
    /\ \E psu_count \in 0..1 :
          /\ psu_available' = (psu_count > 0)
          /\ buttons' = ButtonStates(mode, psu_count > 0, contactor_closed,
                                     is_ramping, is_profiling)
    /\ UNCHANGED <<mode, contactor_closed, is_ramping, is_profiling,
                   operation, profile_timer, panelPc>>
    /\ PanelRest

\* PSUPanel._finish_ramp()
FinishRamp ==
    /\ is_ramping' = FALSE
    /\ buttons' = ButtonStates(mode, psu_available, contactor_closed, FALSE,
                               is_profiling)
    /\ UNCHANGED is_profiling

\* PSUPanel._execute_ramp_step() with ramp_current_step = step; btn is what
\* the buttons show when it is called
ExecuteRampStep(step, max_steps, btn) ==
    \E raised \in BOOLEAN :
       IF raised \/ max_steps = 0
       THEN \* set_current raised: _show_error(...) opens the dialog
            /\ panelPc' = "ramp_error"
            /\ operation' = [operation EXCEPT !.ramp_current_step = step,
                                              !.ramp_max_steps = max_steps]
            /\ is_ramping' = TRUE
            /\ buttons' = btn
            /\ profile_timer' = "none"
            /\ UNCHANGED is_profiling
       ELSE /\ operation' = [operation EXCEPT
                                !.ramp_current_step = step + 1,
                                !.ramp_max_steps = max_steps]
            /\ panelPc' = "idle"
            /\ IF step + 1 > max_steps
               THEN FinishRamp /\ profile_timer' = "none"
               ELSE /\ is_ramping' = TRUE
                    /\ buttons' = btn
                    /\ profile_timer' = "ramp"
                    /\ UNCHANGED is_profiling

\* PSUPanel._start_ramp(), the slot of the RAMP button's clicked signal
StartRamp ==
    /\ panelPc = "idle"
    /\ buttons.ramp
    /\ \E prepared \in BOOLEAN, num_steps \in 0..MaxSteps :
          IF (mode # "gen3" /\ ~contactor_closed) \/ ~prepared
          THEN UNCHANGED <<is_ramping, is_profiling, buttons, operation,
                           profile_timer, panelPc>>
          ELSE ExecuteRampStep(0, num_steps,
                  ButtonStates(mode, psu_available, contactor_closed, TRUE,
                               is_profiling))
    /\ UNCHANGED <<mode, psu_available, contactor_closed>>
    /\ PanelRest

\* profile_timer.timeout -> PSUPanel._execute_ramp_step()
RampTimer ==
    /\ profile_timer = "ramp"
    /\ IF ~is_ramping
       THEN /\ profile_timer' = "none"
            /\ UNCHANGED <<is_ramping, is_profiling, buttons, operation,
                           panelPc>>
       ELSE ExecuteRampStep(operation.ramp_current_step,
                            operation.ramp_max_steps, buttons)
    /\ UNCHANGED <<mode, psu_available, contactor_closed>>
    /\ PanelRest

\* PSUPanel._cancel_ramp(): stop() raises, or _finish_ramp() runs
CancelRamp ==
    /\ profile_timer' = "none"
    /\ \E raised \in BOOLEAN :
          IF raised THEN UNCHANGED <<is_ramping, is_profiling, buttons>>
          ELSE FinishRamp
    /\ UNCHANGED operation

\* PSUPanel._finish_profile()
FinishProfile ==
    /\ is_profiling' = FALSE
    /\ buttons' = ButtonStates(mode, psu_available, contactor_closed,
                               is_ramping, FALSE)
    /\ operation' = [operation EXCEPT !.profile_index = 0,
                                      !.profile_points = 0]
    /\ UNCHANGED is_ramping

\* PSUPanel._execute_profile_step() with profile_index = index
ExecuteProfileStep(index, points, btn) ==
    \E raised \in BOOLEAN :
       IF raised
       THEN /\ panelPc' = "profile_error"
            /\ operation' = [operation EXCEPT !.profile_index = index,
                                              !.profile_points = points]
            /\ is_profiling' = TRUE
            /\ buttons' = btn
            /\ profile_timer' = "none"
            /\ UNCHANGED is_ramping
       ELSE /\ panelPc' = "idle"
            /\ IF index + 1 >= points
               THEN FinishProfile /\ profile_timer' = "none"
               ELSE /\ operation' = [operation EXCEPT
                                        !.profile_index = index + 1,
                                        !.profile_points = points]
                    /\ is_profiling' = TRUE
                    /\ buttons' = btn
                    /\ profile_timer' = "profile"
                    /\ UNCHANGED is_ramping

\* PSUPanel._start_profile(), the slot of the PROFILE button
StartProfile ==
    /\ panelPc = "idle"
    /\ buttons.profile
    /\ \E prepared \in BOOLEAN, points \in 1..MaxSteps :
          IF (mode # "gen3" /\ ~contactor_closed) \/ ~prepared
          THEN UNCHANGED <<is_ramping, is_profiling, buttons, operation,
                           profile_timer, panelPc>>
          ELSE ExecuteProfileStep(0, points,
                  ButtonStates(mode, psu_available, contactor_closed,
                               is_ramping, TRUE))
    /\ UNCHANGED <<mode, psu_available, contactor_closed>>
    /\ PanelRest

\* profile_timer.timeout -> PSUPanel._execute_profile_step()
ProfileTimer ==
    /\ profile_timer = "profile"
    /\ IF ~is_profiling \/ operation.profile_points = 0
       THEN /\ profile_timer' = "none"
            /\ UNCHANGED <<is_ramping, is_profiling, buttons, operation,
                           panelPc>>
       ELSE ExecuteProfileStep(operation.profile_index,
                               operation.profile_points, buttons)
    /\ UNCHANGED <<mode, psu_available, contactor_closed>>
    /\ PanelRest

\* PSUPanel._cancel_profile()
CancelProfile ==
    /\ profile_timer' = "none"
    /\ \E raised \in BOOLEAN :
          IF raised
          THEN UNCHANGED <<is_ramping, is_profiling, buttons, operation>>
          ELSE FinishProfile

\* The error dialog of a step handler is closed: self._cancel_ramp() or
\* self._cancel_profile()
ErrorDialogClosed ==
    /\ panelPc # "idle"
    /\ IF panelPc = "ramp_error" THEN CancelRamp ELSE CancelProfile
    /\ panelPc' = "idle"
    /\ UNCHANGED <<mode, psu_available, contactor_closed>>
    /\ PanelRest

\* PSUPanel._stop_all(), the slot of the STOP button
StopAll ==
    /\ panelPc = "idle"
    /\ buttons.stop
    /\ IF is_profiling THEN CancelProfile
       ELSE IF is_ramping THEN CancelRamp
       ELSE /\ \E stopped \in BOOLEAN :
                  IF stopped
                  THEN /\ is_ramping' = FALSE
                       /\ buttons' = ButtonStates(mode, psu_available,
                                        contactor_closed, FALSE, is_profiling)
                  ELSE UNCHANGED <<is_ramping, buttons>>
            /\ UNCHANGED <<is_profiling, operation, profile_timer>>
    /\ UNCHANGED <<mode, psu_available, contactor_closed, panelPc>>
    /\ PanelRest

NextPanel ==
    \/ SetContactorState
    \/ SetHardwareAvailable
    \/ StartRamp
    \/ RampTimer
    \/ StartProfile
    \/ ProfileTimer
    \/ ErrorDialogClosed
    \/ StopAll

\* a panel nobody touches
PanelIdle ==
    /\ PanelInit
    /\ mode = "gen3"

----------------------------------------------------------------------------
(***************************************************************************)
(* One export run: MainWindow._run_export starts data/process_test.py and  *)
(* waits for it; process_test.py runs export_csv.py and plot_data.py as    *)
(* subprocesses and then writes the documentation files.                   *)
(***************************************************************************)
\* The CSV files export_data() writes, in its order
ExportGroups == <<"AIX", "AIX_converted", "TC", "RL", "PSU", "BGA">>

\* The files save_test_info and save_standalone_scripts write, in their order
DocFiles == <<"test_info.md", "export_csv.py", "plot_data.py">>

\* a subprocess.run(...) result: not returned yet, or its returncode
NotRun == [ran |-> FALSE, returncode |-> 0]
Exited(code) == [ran |-> TRUE, returncode |-> code]

StepFailedNever(result) == FALSE
\* if result.returncode != 0: ... sys.exit(1)
StepFailed(result) == result.returncode # 0

\* The message _run_export shows for the result of process_test.py
ExportMessage(result) ==
    IF result.returncode = 0 THEN "Export complete!" ELSE "Export failed"

PipeIdle ==
    /\ pipeline = [pc |-> "idle", group |-> 0, csv |-> {},
                   export |-> NotRun, plotting |-> FALSE, plot |-> NotRun,
                   docs |-> {}, exit |-> NotRun]
    /\ status_bar = ""

PipeRest == UNCHANGED <<psuVars, guiVars, bridgeVars, tcVars, panelVars>>

\* process_test.py exits with `code`
PipelineExit(code) ==
    pipeline' = [pipeline EXCEPT !.pc = "exited", !.exit = Exited(code)]

\* MainWindow._run_export up to subprocess.run, which starts the script or
\* raises
RunExportStart ==
    /\ pipeline.pc = "idle"
    /\ \E started \in BOOLEAN :
          IF started
          THEN /\ status_bar' = "Exporting data..."
               /\ pipeline' = [pipeline EXCEPT !.pc = "main"]
          ELSE /\ status_bar' = "Export error"
               /\ pipeline' = [pipeline EXCEPT !.pc = "reported"]
    /\ PipeRest

\* process_test.main() up to run_export()'s subprocess.run: the imports and
\* output_dir.mkdir raise, or export_csv.py is started
PipelineMain ==
    /\ pipeline.pc = "main"
    /\ \E raised \in BOOLEAN :
          IF raised THEN PipelineExit(1)
          ELSE pipeline' = [pipeline EXCEPT !.pc = "export"]
    /\ UNCHANGED status_bar
    /\ PipeRest

\* export_csv.export_data(): one export_sensor_group / export_bga_data call,
\* which writes its CSV or catches its own exception and returns None
ExportGroup ==
    /\ pipeline.pc = "export"
    /\ pipeline.group < Len(ExportGroups)
    /\ \E written \in BOOLEAN :
          pipeline' = [pipeline EXCEPT
                          !.group = @ + 1,
                          !.csv = IF written
                                  THEN @ \cup {ExportGroups[pipeline.group + 1]}
                                  ELSE @]
    /\ UNCHANGED status_bar
    /\ PipeRest

\* export_csv.py exits: 1 when the token is missing or an exception reached
\* export_data or the interpreter, 0 when export_data returned
ExportExit ==
    /\ pipeline.pc = "export"
    /\ \E code \in 0..1 :
          /\ code = 0 => pipeline.group = Len(ExportGroups)
          /\ pipeline' = [pipeline EXCEPT !.pc = "exported",
                                          !.export = Exited(code)]
    /\ UNCHANGED status_bar
    /\ PipeRest

\* run_export() after subprocess.run, then run_plotting() up to its
\* subprocess.run
RunExport ==
    /\ pipeline.pc = "exported"
    /\ IF StepFailed(pipeline.export) THEN PipelineExit(1)
       ELSE pipeline' = [pipeline EXCEPT !.pc = "plot", !.plotting = TRUE]
    /\ UNCHANGED status_bar
    /\ PipeRest

\* plot_data.py exits: 0 when generate_plots returned (also when it found
\* nothing to plot), 1 when an exception reached the interpreter
PlotExit ==
    /\ pipeline.pc = "plot"
    /\ \E code \in 0..1 :
          pipeline' = [pipeline EXCEPT !.pc = "plotted",
                                       !.plot = Exited(code)]
    /\ UNCHANGED status_bar
    /\ PipeRest

\* run_plotting() after subprocess.run
RunPlotting ==
    /\ pipeline.pc = "plotted"
    /\ IF StepFailed(pipeline.plot) THEN PipelineExit(1)
       ELSE pipeline' = [pipeline EXCEPT !.pc = "docs"]
    /\ UNCHANGED status_bar
    /\ PipeRest

\* save_test_info(...) and save_standalone_scripts(...): the first `files`
\* files are written; an exception ends the script with code 1
SaveDocs ==
    /\ pipeline.pc = "docs"
    /\ \E files \in 0..Len(DocFiles) :
          pipeline' = [pipeline EXCEPT
                          !.pc = "exited",
                          !.docs = {DocFiles[n] : n \in 1..files},
                          !.exit = Exited(IF files = Len(DocFiles)
                                          THEN 0 ELSE 1)]
    /\ UNCHANGED status_bar
    /\ PipeRest

\* MainWindow._run_export after subprocess.run returned
RunExportReturn ==
    /\ pipeline.pc = "exited"
    /\ status_bar' = ExportMessage(pipeline.exit)
    /\ pipeline' = [pipeline EXCEPT !.pc = "reported"]
    /\ PipeRest

NextPipeline ==
    \/ RunExportStart
    \/ PipelineMain
    \/ ExportGroup
    \/ ExportExit
    \/ RunExport
    \/ PlotExit
    \/ RunPlotting
    \/ SaveDocs
    \/ RunExportReturn

AuxIdle == TCIdle /\ PanelIdle /\ PipeIdle

NextPSU ==
    \/ PSUSetVoltageCurrent
    \/ PSUSetVoltage
    \/ PSUSetCurrent
    \/ PSUSafeShutdown
    \/ PSUEnableOutput
    \/ PSUDisableOutput

InitPSU == PSUInit /\ GUIInit /\ BridgeIdle /\ AuxIdle

SpecPSU == InitPSU /\ [][NextPSU]_vars

InitGUI == PSUInit /\ GUIInit /\ BridgeIdle /\ AuxIdle

SpecGUI == InitGUI /\ [][NextGUI]_vars

InitBridge == PSUInit /\ GUIInit /\ BridgeInit /\ AuxIdle

SpecBridge == InitBridge /\ [][NextBridge]_vars

\* The poll thread and the POST /command handlers
NextCommand ==
    \/ PollConnect
    \/ PollReadRaises
    \/ PollReadNothing
    \/ PollReadData
    \/ PollAppend
    \/ PollExcept
    \/ PollCommand
    \/ PollFlush
    \/ CommandStart
    \/ CommandPut
    \/ CommandPost

SpecCommand == InitBridge /\ [][NextCommand]_vars

\* The poll thread alone
NextPoll ==
    \/ PollConnect
    \/ PollReadRaises
    \/ PollReadNothing
    \/ PollReadData
    \/ PollAppend
    \/ PollExcept
    \/ PollCommand
    \/ PollFlush

InitPoll == PSUInit /\ GUIInit /\ BridgeStart(InfluxSetups) /\ AuxIdle

SpecPoll == InitPoll /\ [][NextPoll]_vars

\* The poll thread is a daemon thread that the scheduler keeps running; a
\* started POST /command handler runs to its end.  Requests arrive or not.
NextRetry ==
    \/ NextPoll
    \/ CommandStart
    \/ CommandPut

SpecRetry ==
    InitBridge /\ [][NextRetry]_vars /\ WF_vars(NextPoll) /\ WF_vars(CommandPut)

\* The TC-08 read loop and its /metrics handler, with and without InfluxDB
InitTC08 ==
    PSUInit /\ GUIInit /\ BridgeIdle /\ TCStart(InfluxSetups) /\ PanelIdle
    /\ PipeIdle

SpecTC08 == InitTC08 /\ [][NextTC08]_vars

\* The handlers of one PSUPanel in each mode
InitPanel ==
    PSUInit /\ GUIInit /\ BridgeIdle /\ TCIdle /\ PanelInit /\ PipeIdle

SpecPanel == InitPanel /\ [][NextPanel]_vars

\* One export run started from the GUI
InitPipeline == PSUInit /\ GUIInit /\ BridgeIdle /\ AuxIdle

SpecPipeline == InitPipeline /\ [][NextPipeline]_vars

----------------------------------------------------------------------------
(***************************************************************************)
(* Claims about PSUClient, checked under SpecPSU.                          *)
(***************************************************************************)

SafeWrites == << <<REG_VOLTAGE, 0>>, <<REG_CURRENT, 0>>, <<REG_ENABLE, 0>> >>

SetCalls == {"set_voltage_current", "set_voltage", "set_current", "safe_shutdown"}

\* C1: every set_voltage_current request with voltage < 100 V or current < 1 A
\* writes only zeros: 0 to 0x0101, then 0 to 0x0102, then 0 (OFF) to 0x0103,
\* whatever the other argument is; all three when the call returns True.
C1_BelowLimitsWritesSafeState ==
    (/\ psuCall.op \in SetCalls
     /\ \/ psuCall.voltage.t < VOLTAGE_MIN
        \/ psuCall.current.t < CURRENT_MIN)
    => /\ psuCall.writes = SubSeq(SafeWrites, 1, Len(psuCall.writes))
       /\ psuCall.ret => psuCall.writes = SafeWrites

\* A request with a voltage within the limits and a current below 1 A was
\* written out in full.
C1_Witness ==
    /\ psuCall.op = "set_voltage_current"
    /\ psuCall.voltage.t >= VOLTAGE_MIN
    /\ psuCall.current.t < CURRENT_MIN
    /\ psuCall.current.t > 0
    /\ psuCall.ret

IntMin(a, b) == IF a < b THEN a ELSE b

\* C2: a set_voltage_current request with voltage >= 100 V and current >= 1 A
\* that returns True wrote min(voltage, 900 V) to 0x0101, min(current, 100 A)
\* to 0x0102 and then 1 (ON) to 0x0103.
C2_WritesClampedRequest ==
    (/\ psuCall.op = "set_voltage_current"
     /\ psuCall.voltage.t >= VOLTAGE_MIN
     /\ psuCall.current.t >= CURRENT_MIN
     /\ psuCall.ret)
    => psuCall.writes =
         << <<REG_VOLTAGE, IntMin(psuCall.voltage.t, VOLTAGE_MAX)>>,
            <<REG_CURRENT, IntMin(psuCall.current.t, CURRENT_MAX)>>,
            <<REG_ENABLE, 1>> >>

\* The range half of C2, which the code does keep: every call that wrote
\* enable = 1 together with set points wrote a voltage in [100, 900] V and a
\* current in [1, 100] A.
C2_EnabledWithinLimits ==
    (psuCall.op \in SetCalls /\ Len(psuCall.writes) = 3
        /\ psuCall.writes[3] = <<REG_ENABLE, 1>>)
    => /\ psuCall.writes[1][2] \in VOLTAGE_MIN..VOLTAGE_MAX
       /\ psuCall.writes[2][2] \in CURRENT_MIN..CURRENT_MAX

\* C3: set_voltage leaves the current set-point register 0x0102 as it was,
\* and set_current leaves the voltage set-point register 0x0101 as it was.
C3_SetOneKeepsOther ==
    [][/\ PSUSetVoltage => psuRegs'[REG_CURRENT] = psuRegs[REG_CURRENT]
       /\ PSUSetCurrent => psuRegs'[REG_VOLTAGE] = psuRegs[REG_VOLTAGE]]_vars

\* C4: whenever safe_shutdown returns True the registers hold 0 V, 0 A and
\* output OFF.
C4_SafeShutdownReachesSafeState ==
    (psuCall.op = "safe_shutdown" /\ psuCall.ret)
    => /\ psuRegs[REG_VOLTAGE] = 0
       /\ psuRegs[REG_CURRENT] = 0
       /\ psuRegs[REG_ENABLE] = 0

\* safe_shutdown returned True.
C4_Witness ==
    /\ psuCall.op = "safe_shutdown"
    /\ psuCall.ret
    /\ Len(psuCall.writes) = 3

----------------------------------------------------------------------------
(***************************************************************************)
(* Claims about MainWindow, checked under SpecGUI.                         *)
(***************************************************************************)

InInitialized(g) == g \in initialized_devices

\* C5: closeEvent performs the safe-state action of every group present in
\* initialized_devices, in the order PSU, RLM, BGA, PURGE, whether or not an
\* earlier action raised; it accepts the close event; and no disconnect alert
\* is shown once it has started.
C5_CloseEventReturnsToSafeState ==
    /\ guiLast.handler = "close" =>
          /\ [n \in 1..Len(guiLast.log) |-> guiLast.log[n].group]
                = SelectSeq(CloseOrder, InInitialized)
          /\ guiLast.accepted
    /\ guiHist.closed => ~guiLast.alert

\* closeEvent ran with all four groups initialized and the first action (the
\* PSU shutdown) raised.
C5_Witness ==
    /\ guiLast.handler = "close"
    /\ Len(guiLast.log) = 4
    /\ guiLast.log[1].raised
    /\ guiLast.accepted

\* C6: over any sequence of status updates, set_all_off and set_normal_mode
\* have each been invoked exactly once per offline-to-online transition of
\* RLM (so not while RLM stays online, and again after it came back).
C6_RelayInitOncePerConnection ==
    /\ guiHist.relayInits = guiHist.rlmRises
    /\ guiHist.purgeInits = guiHist.rlmRises

\* RLM came online, went offline and came back: the second init call was made.
C6_Witness ==
    /\ guiHist.rlmRises = 2
    /\ guiLast.handler = "status"
    /\ guiLast.relayOff = 1
    /\ guiLast.purgeNormal = 1

\* C7: for each of BGA01, BGA02, BGA03, a status update that reports the
\* analyzer online after it was offline writes its normal gases to it,
\* whatever the state of the other two analyzers.
C7_EachBGAInitialisedOnConnect ==
    [][\A b \in BGAs :
          (/\ guiHist'.updates = guiHist.updates + 1
           /\ b \in guiHist'.lastOnline
           /\ b \notin guiHist.lastOnline)
          => b \in guiLast'.bgaInit]_vars

----------------------------------------------------------------------------
(***************************************************************************)
(* Claims about the polling bridges, checked under SpecBridge.             *)
(***************************************************************************)

\* Samples the poll thread has appended so far
Appended == bridgeHist.acquired - Len(pollBatch)

Smaller(a, b) == IF a < b THEN a ELSE b

\* C8: in every bridge that buffers samples the ring buffer never holds more
\* than SAMPLE_RATE * BUFFER_SECONDS samples, and it is always the most recent
\* appended samples in acquisition order: its ids are consecutive and end at
\* the last appended sample; where /metrics does not clear it (all but BGA03)
\* it holds exactly the last min(appended, maximum) samples.
C8_RingBufferHoldsMostRecent ==
    bridge \in BufferingBridges =>
        /\ Len(sample_buffer) <= SAMPLE_RATE * BUFFER_SECONDS
        /\ \A n \in 1..Len(sample_buffer) :
              sample_buffer[n].id = Appended - Len(sample_buffer) + n
        /\ bridge # "BGA03" =>
              Len(sample_buffer) = Smaller(Appended, SAMPLE_RATE * BUFFER_SECONDS)

\* An append to a full buffer has evicted the oldest sample.
C8_Witness ==
    /\ bridge \in BufferingBridges
    /\ Len(sample_buffer) = SAMPLE_RATE * BUFFER_SECONDS
    /\ sample_buffer[1].id > 1
    /\ Appended > SAMPLE_RATE * BUFFER_SECONDS

\* C9: a GET /metrics answered while the device is marked offline returns no
\* sample line, under every interleaving of the handler with the poll thread.
\* resp.online and resp.buffered are the flag and the buffer length at the
\* moment the handler took its samples.
C9_NoDataWhileOffline ==
    (resp.status # 0 /\ ~resp.online) => resp.lines = << >>

\* The half of C9 that every interleaving keeps: a GET /metrics answered while
\* no sample is buffered sends no line and the no-data status of its bridge
\* (204 on the BGA bridges, 503 on NI, TC-08 and PSU).
C9_NoLineWithoutSample ==
    (resp.status # 0 /\ resp.buffered = 0) =>
        /\ resp.lines = << >>
        /\ resp.status = NoDataStatus(bridge)

----------------------------------------------------------------------------
(***************************************************************************)
(* Claims about the command endpoints, checked under SpecCommand.          *)
(***************************************************************************)

\* C11 as stated: PSU bridge POST /command: a request that finds device_online
\* False is answered 503 with success false and queues nothing; a request
\* without a JSON body is answered 400 and queues nothing; every other request
\* appends exactly one command and is answered with success true.
C11_CommandAnswers ==
    (bridge = "PSU" /\ cmdResp.status # 0) =>
        IF ~cmdResp.online
        THEN cmdResp.status = 503 /\ ~cmdResp.success /\ cmdResp.queued = 0
        ELSE IF cmdResp.body = "absent"
        THEN cmdResp.status = 400 /\ cmdResp.queued = 0
        ELSE cmdResp.queued = 1 /\ cmdResp.success

\* C11, amended: PSU bridge POST /command: a request that finds
\* device_online False is answered 503 with success false; otherwise a request
\* whose body is a non-empty JSON value appends exactly one command and is
\* answered 200 with success true; every other request (no JSON body, malformed
\* JSON, an empty JSON value such as {}) is answered 400 or 500 with success
\* false (400 for an empty value, 500 for malformed JSON) and queues nothing.
\* Commands enter the queue in no other way.
C11_CommandAnswersByBody ==
    (bridge = "PSU" /\ cmdResp.status # 0) =>
        /\ IF ~cmdResp.online
           THEN cmdResp.status = 503 /\ ~cmdResp.success /\ cmdResp.queued = 0
           ELSE IF cmdResp.body = "command"
           THEN cmdResp.status = 200 /\ cmdResp.success /\ cmdResp.queued = 1
           ELSE /\ cmdResp.status \in {400, 500}
                /\ ~cmdResp.success
                /\ cmdResp.queued = 0
                /\ cmdResp.body = "empty" => cmdResp.status = 400
                /\ cmdResp.body = "malformed" => cmdResp.status = 500
        /\ Len(command_queue) + Len(cmdHist.sent) <= cmdHist.accepted
        /\ \A n \in 1..Len(command_queue) : command_queue[n].body = "command"

\* An empty JSON value was refused with 400 after a command had been queued.
C11_Witness ==
    /\ bridge = "PSU"
    /\ cmdResp.status = 400
    /\ cmdResp.body = "empty"
    /\ cmdHist.accepted >= 1
    /\ device_online

\* C12: BGA bridges: the commands written to the serial device are accepted
\* commands, written in the order they were accepted and each at most once
\* (their ids increase strictly), each is the first command of its poll
\* iteration (at most one per iteration) and is written before any read query
\* of that iteration.
C12_CommandsSentInOrder ==
    bridge \in BGABridges =>
        /\ \A n \in 1..Len(cmdHist.sent) :
              /\ cmdHist.sent[n].id \in 1..cmdHist.accepted
              /\ cmdHist.sent[n].nth = 0
              /\ cmdHist.sent[n].reads = 0
        /\ \A n, k \in 1..Len(cmdHist.sent) :
              n < k => cmdHist.sent[n].id < cmdHist.sent[k].id
        /\ \A n \in 1..Len(command_queue) :
              \A k \in 1..Len(cmdHist.sent) :
                 cmdHist.sent[k].id < command_queue[n].id

\* Two commands were queued together and both have been written, a third
\* waits.
C12_Witness ==
    /\ bridge \in BGABridges
    /\ Len(cmdHist.sent) >= 2
    /\ command_queue # << >>
    /\ pollPc = "read"

----------------------------------------------------------------------------
(***************************************************************************)
(* Claims about the poll thread, checked under SpecPoll.                   *)
(***************************************************************************)

\* The ids of the samples passed to write_to_influxdb so far, in order
RECURSIVE PassedIds(_)
PassedIds(hist) ==
    IF hist = << >> THEN << >>
    ELSE Head(hist).samples \o PassedIds(Tail(hist))

C13_WitnessDisabled ==
    /\ bridge \in {"BGA01", "PSU", "TC08"}
    /\ influx_write_api = "none"
    /\ Len(writeHist) >= 2
    /\ pending_samples # << >>
    /\ pollPc = "connect"

----------------------------------------------------------------------------
(***************************************************************************)
(* Claims about the retry loop, checked under SpecRetry.                   *)
(***************************************************************************)

\* The poll thread has left the except clause and is reconnecting, or has
\* not connected yet
Reconnecting == pollPc = "connect"

\* From a reconnect, unless a later device call raises or stays without
\* answer, the device is marked online and a sample acquired after the flag
\* went to True has been appended.  (The model lets the device deliver
\* MaxAcquired samples; a call that fails only then is no excuse.)
Recovers ==
    (Reconnecting /\ bridgeHist.acquired < MaxAcquired)
        ~> \/ /\ pollIter.call \in {"raised", "silent"}
              /\ bridgeHist.acquired < MaxAcquired
           \/ device_online /\ Appended > bridgeHist.since

----------------------------------------------------------------------------
(***************************************************************************)
(* Claims about reconnection and /metrics, checked under SpecBridge.       *)
(***************************************************************************)

\* A step that completes a GET /metrics with status 200
Answers200 == resp' # resp /\ resp'.status = 200

\* C18: every sample of a 200 response was acquired after the most recent
\* transition of device_online to True: no sample buffered before an outage
\* is returned after the device came back.
C18_OnlyCurrentConnection ==
    [][Answers200 =>
          \A n \in 1..Len(resp'.snapshot) :
             resp'.snapshot[n] > bridgeHist.since]_vars

\* What the bridges do return after an outage: the content of the ring buffer,
\* that is the most recent appended samples in acquisition order, acquired
\* before or after the outage; only BGA02, which keeps one reading, returns
\* one of the current connection.
C18_ReturnsBufferContent ==
    [][Answers200 =>
          /\ \A n \in 1..Len(resp'.snapshot) :
                resp'.snapshot[n] = Appended - Len(resp'.snapshot) + n
          /\ Len(resp'.snapshot) <= SAMPLE_RATE * BUFFER_SECONDS
          /\ bridge = "BGA02" =>
                \A n \in 1..Len(resp'.snapshot) :
                   resp'.snapshot[n] > bridgeHist.since]_vars


\* the temperature read for a channel of a sample was outside (-200, 1500)
Invalid(stamp, ch) ==
    LET temp_c == tcHist.raw[stamp][ch]
    IN temp_c <= -200 \/ temp_c >= 1500

\* C15: in the TC-08 bridge a channel reading that is not strictly between
\* -200 and 1500 degrees C is stored as invalid with no value; no point
\* written to InfluxDB and no line of a /metrics response comes from such a
\* reading; points_written is the number of points written, all valid.
C15_InvalidReadingsFiltered ==
    /\ \A n \in 1..Len(tc_buffer) : \A ch \in TCChannels :
          Invalid(tc_buffer[n].timestamp_ns, ch) =>
             tc_buffer[n].readings[ch] = [value |-> None, valid |-> FALSE]
    /\ \A n \in 1..Len(tc_pending) : \A ch \in TCChannels :
          Invalid(tc_pending[n].timestamp_ns, ch) =>
             tc_pending[n].readings[ch] = [value |-> None, valid |-> FALSE]
    /\ \A p \in tcHist.written \cup tcResp.lines :
          /\ ~Invalid(p.time, p.channel)
          /\ p.temp_c = <<tcHist.raw[p.time][p.channel]>>
    /\ points_written = Cardinality(tcHist.written)

\* a batch with a valid and an invalid reading was written and served
C15_Witness ==
    /\ points_written > 0
    /\ tcResp.status = 200
    /\ tcResp.lines # {}
    /\ \E n \in 1..Len(tc_buffer) : \E ch \in TCChannels :
          /\ Invalid(tc_buffer[n].timestamp_ns, ch)
          /\ \E p \in tcHist.written : p.time = tc_buffer[n].timestamp_ns
          /\ \E p \in tcResp.lines : p.time = tc_buffer[n].timestamp_ns

\* C16: PSUPanel interlock: ENTER, RAMP and PROFILE are enabled exactly when
\* the interlock is OK (psu_available in gen3 mode, contactor_closed and
\* psu_available otherwise) and neither a ramp nor a profile is running;
\* STOP is enabled exactly when psu_available.
C16_ButtonsFollowInterlock ==
    LET interlock == IF mode = "gen3" THEN psu_available
                     ELSE contactor_closed /\ psu_available
        free == interlock /\ ~is_ramping /\ ~is_profiling
    IN /\ buttons.enter <=> free
       /\ buttons.ramp <=> free
       /\ buttons.profile <=> free
       /\ buttons.stop <=> psu_available

\* a gen3 ramp between two steps: interlock OK, the three buttons disabled
C16_Witness ==
    /\ mode = "gen3"
    /\ psu_available
    /\ is_ramping
    /\ operation.ramp_current_step >= 1
    /\ profile_timer = "ramp"
    /\ ~buttons.enter /\ ~buttons.ramp /\ ~buttons.profile
    /\ buttons.stop

\* a ramp has finished and the buttons are enabled again
C16_WitnessFinished ==
    /\ psu_available
    /\ ~is_ramping
    /\ operation.ramp_current_step > operation.ramp_max_steps
    /\ buttons.ramp

\* C17: process_test pipeline ordering: plotting starts only after the CSV
\* export subprocess exited with code 0; test_info.md and the standalone
\* scripts are written only after plotting exited with code 0; when either
\* step fails the pipeline exits non-zero without running the later steps;
\* MainWindow._run_export reports 'Export complete' exactly when the
\* pipeline's exit code is 0.
C17_PipelineOrdering ==
    LET ok(result) == result.ran /\ result.returncode = 0
        failed(result) == result.ran /\ result.returncode # 0
    IN /\ pipeline.plotting => ok(pipeline.export)
       /\ pipeline.docs # {} => ok(pipeline.plot)
       /\ (failed(pipeline.export) /\ pipeline.pc # "exported") =>
             /\ ~pipeline.plotting /\ ~pipeline.plot.ran
             /\ pipeline.docs = {}
             /\ failed(pipeline.exit)
       /\ (failed(pipeline.plot) /\ pipeline.pc # "plotted") =>
             /\ pipeline.docs = {}
             /\ failed(pipeline.exit)
       /\ status_bar = "Export complete!" <=>
             (pipeline.pc = "reported" /\ ok(pipeline.exit))

\* a run that went through all steps and was reported complete, although
\* one CSV group was not written
C17_Witness ==
    /\ status_bar = "Export complete!"
    /\ pipeline.docs = {DocFiles[n] : n \in 1..Len(DocFiles)}
    /\ pipeline.plotting
    /\ "TC" \notin pipeline.csv

\* the export subprocess failed and the run was reported as failed
C17_WitnessFailed ==
    /\ status_bar = "Export failed"
    /\ pipeline.export.ran /\ pipeline.export.returncode = 1
    /\ ~pipeline.plotting
====
